---- MODULE Spec2Model ----
(***************************************************************************)
(* Model of core::Engine (VK2/Core/Engine.cpp, Engine.h): Exec runs        *)
(* Initialize, then the Run/Draw loop, then Cleanup.  The CPU thread is a  *)
(* sequential program whose position is pc; the GPU executes submitted     *)
(* work concurrently (GpuComplete).  Return values of Vulkan calls that    *)
(* the code discards are kept in the history record cycle so that          *)
(* properties about failed steps can be stated.                            *)
(***************************************************************************)
EXTENDS Integers, Sequences, FiniteSets, TLC

\* ---------------------------------------------------------------- bounds
\* Largest number of swapchain images the driver hands back.
MaxImages == 2
\* Number of Draw calls after which the window system delivers a quit event.
MaxFrames == 3
\* Largest number of events drained by one pass of the SDL_PollEvent loop.
MaxEvents == 2
\* Latest modification time a shader file carries before the run.
MaxTime == 2

VARIABLES
    pc,                 \* position of the CPU thread inside Exec
    exitCode,           \* value returned by Exec, -1 while it is running
    IsInitialized,      \* Engine::IsInitialized
    FrameNumber,        \* Engine::FrameNumber
    stillRunning,       \* local of Run
    swapchainSize,      \* SwapchainImages.size()
    numImageViews,      \* SwapchainImageViews.size()
    numFramebuffers,    \* Framebuffers.size()
    swapchainImageIdx,  \* local of Draw
    RenderFence,        \* "none", "signaled" or "unsignaled"
    pending,            \* submissions queued on GraphicsQueue, not finished
    PresentSemaphore,   \* 0 unsignaled, c signaled by the acquire of Draw c
    RenderSemaphore,    \* 0 unsignaled, c signaled by the submission of Draw c
    gpuQueue,           \* operations queued on GraphicsQueue, oldest first
    shaderIdx,          \* number of LoadShaderModule calls made
    lastLoad,           \* the latest LoadShaderModule call: files and outcome
    created,            \* handles in order of creation
    destroyed,          \* handles in order of destruction
    cycle,              \* results of the current Draw's Vulkan calls
    quitSeen,           \* history: some event poll returned SDL_QUIT
    drawsStarted,       \* history: number of calls of Draw
    drawsCompleted,     \* history: number of returns from Draw
    drawsAfterQuit      \* history: calls of Draw after quitSeen

vars == <<pc, exitCode, IsInitialized, FrameNumber, stillRunning,
          swapchainSize, numImageViews, numFramebuffers, swapchainImageIdx,
          RenderFence, pending, PresentSemaphore, RenderSemaphore, gpuQueue,
          shaderIdx, lastLoad, created, destroyed, cycle, quitSeen,
          drawsStarted, drawsCompleted, drawsAfterQuit>>

\* ------------------------------------------------------------- handles
\* A handle is <<kind, index>>; index distinguishes the per-image objects.
H(kind) == <<kind, 0>>

\* <<kind,0>>, ..., <<kind,n-1>>
Indexed(kind, n) == [i \in 1..n |-> <<kind, i - 1>>]

NoCycle == [wait |-> "none", acquire |-> "none", submit |-> "none",
            present |-> "none"]

\* No LoadShaderModule call has been made.
NoLoad == [made |-> FALSE]

Init ==
    /\ pc = "SDLInit"
    /\ exitCode = -1
    /\ IsInitialized = FALSE
    /\ FrameNumber = 0
    /\ stillRunning = FALSE
    /\ swapchainSize = 0
    /\ numImageViews = 0
    /\ numFramebuffers = 0
    /\ swapchainImageIdx = 0
    /\ RenderFence = "none"
    /\ pending = 0
    /\ PresentSemaphore = 0
    /\ RenderSemaphore = 0
    /\ gpuQueue = <<>>
    /\ shaderIdx = 0
    /\ lastLoad = NoLoad
    /\ created = <<>>
    /\ destroyed = <<>>
    /\ cycle = NoCycle
    /\ quitSeen = FALSE
    /\ drawsStarted = 0
    /\ drawsCompleted = 0
    /\ drawsAfterQuit = 0

\* ------------------------------------------------------------- Exec
\* An exception thrown inside Initialize is caught by Exec, which returns 1
\* without calling Cleanup.
Throw ==
    /\ pc' = "Done"
    /\ exitCode' = 1

\* vkb::Result::value() on a failed build and the unchecked
\* SDL_Vulkan_CreateSurface leave no valid handle behind; the process does
\* not survive the first use of it.
Abort ==
    /\ pc' = "Crashed"
    /\ UNCHANGED exitCode

loopVars == <<FrameNumber, stillRunning, swapchainImageIdx, cycle, quitSeen,
              drawsStarted, drawsCompleted, drawsAfterQuit>>
semVars == <<PresentSemaphore, RenderSemaphore>>
gpuVars == <<RenderFence, pending, semVars, gpuQueue>>
sizeVars == <<swapchainSize, numImageViews, numFramebuffers>>
shaderVars == <<shaderIdx, lastLoad>>

\* Initialize: SDL_Init
SDLInit ==
    /\ pc = "SDLInit"
    /\ \/ pc' = "CreateWindow" /\ UNCHANGED exitCode
       \/ Throw
    /\ UNCHANGED <<IsInitialized, shaderVars, created, destroyed, loopVars,
                   gpuVars, sizeVars>>

\* Initialize: SDL_CreateWindow
CreateWindow ==
    /\ pc = "CreateWindow"
    /\ \/ /\ created' = Append(created, H("Window"))
          /\ pc' = "InitVulkan"
          /\ UNCHANGED exitCode
       \/ Throw /\ UNCHANGED created
    /\ UNCHANGED <<IsInitialized, shaderVars, destroyed, loopVars, gpuVars,
                   sizeVars>>

InitVulkan ==
    /\ pc = "InitVulkan"
    /\ \/ /\ created' = created \o <<H("Instance"), H("DebugMessenger"),
                                     H("Surface"), H("Device")>>
          /\ pc' = "InitSwapchain"
          /\ UNCHANGED exitCode
       \/ Abort /\ UNCHANGED created
    /\ UNCHANGED <<IsInitialized, shaderVars, destroyed, loopVars, gpuVars,
                   sizeVars>>

InitSwapchain ==
    /\ pc = "InitSwapchain"
    /\ \/ \E n \in 1..MaxImages :
            /\ swapchainSize' = n
            /\ numImageViews' = n
            /\ created' = created \o <<H("Swapchain")>>
                                  \o Indexed("ImageView", n)
            /\ pc' = "InitCommands"
            /\ UNCHANGED exitCode
       \/ Abort /\ UNCHANGED <<created, swapchainSize, numImageViews>>
    /\ UNCHANGED <<IsInitialized, shaderVars, destroyed, loopVars, gpuVars,
                   numFramebuffers>>

\* The command buffer allocated from the pool has no destroy call of its own
\* (the pool frees it), so it is not tracked as a handle.
InitCommands ==
    /\ pc = "InitCommands"
    /\ \/ /\ created' = Append(created, H("CommandPool"))
          /\ pc' = "InitDefaultRenderpass"
          /\ UNCHANGED exitCode
       \/ Throw /\ UNCHANGED created
       \/ Throw /\ created' = Append(created, H("CommandPool"))
    /\ UNCHANGED <<IsInitialized, shaderVars, destroyed, loopVars, gpuVars,
                   sizeVars>>

InitDefaultRenderpass ==
    /\ pc = "InitDefaultRenderpass"
    /\ \/ /\ created' = Append(created, H("RenderPass"))
          /\ pc' = "InitFramebuffers"
          /\ UNCHANGED exitCode
       \/ Throw /\ UNCHANGED created
    /\ UNCHANGED <<IsInitialized, shaderVars, destroyed, loopVars, gpuVars,
                   sizeVars>>

ResizeFramebuffersShort(nImages) == nImages - 1

\* const size_t swapchainSize = SwapchainImages.size();
\* Framebuffers.resize(swapchainSize);
ResizeFramebuffers(nImages) == nImages

\* Framebuffers.resize(swapchainSize), then one vkCreateFramebuffer per
\* image view; k is the number of creations that succeed before the first
\* failure.
InitFramebuffers ==
    /\ pc = "InitFramebuffers"
    /\ numFramebuffers' = ResizeFramebuffers(swapchainSize)
    /\ \E k \in 0..swapchainSize :
         /\ created' = created \o Indexed("Framebuffer", k)
         /\ IF k = swapchainSize
              THEN pc' = "InitSyncStructures" /\ UNCHANGED exitCode
              ELSE Throw
    /\ UNCHANGED <<IsInitialized, shaderVars, destroyed, loopVars, gpuVars,
                   swapchainSize, numImageViews>>

SyncHandles == <<H("RenderFence"), H("PresentSemaphore"),
                 H("RenderSemaphore")>>

\* The fence is created with VK_FENCE_CREATE_SIGNALED_BIT.
InitSyncStructures ==
    /\ pc = "InitSyncStructures"
    /\ \E k \in 0..3 :
         /\ created' = created \o SubSeq(SyncHandles, 1, k)
         /\ RenderFence' = IF k >= 1 THEN "signaled" ELSE RenderFence
         /\ IF k = 3
              THEN pc' = "InitPipelines" /\ UNCHANGED exitCode
              ELSE Throw
    /\ UNCHANGED <<IsInitialized, shaderVars, destroyed, loopVars, pending,
                   semVars, gpuQueue, sizeVars>>

ShaderHandles == <<<<"ShaderModule", 0>>, <<"ShaderModule", 1>>>>

\* ------------------------------------------------------------- shaders
\* The two files LoadShaderModule looks at: the GLSL source glslPath and the
\* artifact glslPath + ".spv", each with its last write time.
FileStates ==
    {[srcExists |-> se,
      srcTime   |-> IF se THEN st ELSE 0,
      spvExists |-> pe,
      spvTime   |-> IF pe THEN pt ELSE 0,
      spvBytes  |-> IF pe THEN "cached" ELSE "none"] :
        se \in BOOLEAN, pe \in BOOLEAN, st \in 1..MaxTime, pt \in 1..MaxTime}

\* Outcomes of the calls LoadShaderModule and CompileGlslToSpv make: opening
\* the source, shaderc, opening the artifact for writing and for reading,
\* vkCreateShaderModule.
LoadInputs ==
    [srcOpen : BOOLEAN, compile : BOOLEAN, write : BOOLEAN, read : BOOLEAN,
     module : BOOLEAN]

\* A file written during the run is newer than every file found.
Now == MaxTime + 1

NeedsCompileOnEqual(f) == ~f.spvExists \/ f.srcTime >= f.spvTime

\* !exists(spvPath) || last_write_time(glslPath) > last_write_time(spvPath)
NeedsCompile(f) == ~f.spvExists \/ f.srcTime > f.spvTime

CompileGlslToSpvWritesOnError(f, in) ==
    IF ~f.srcExists THEN [ok |-> FALSE, calls |-> 0, stage |-> "noSource",
                          file |-> f]
    ELSE [ok |-> in.compile, calls |-> 1,
          stage |-> IF in.compile THEN "written" ELSE "errors",
          file |-> [f EXCEPT !.spvExists = TRUE, !.spvTime = Now,
                             !.spvBytes = "compiled"]]

\* CompileGlslToSpv: false when the source is missing or cannot be opened,
\* when shaderc reports errors, or when the artifact cannot be opened for
\* writing; otherwise the artifact holds the compiled words.
CompileGlslToSpv(f, in) ==
    IF ~f.srcExists THEN [ok |-> FALSE, calls |-> 0, stage |-> "noSource",
                          file |-> f]
    ELSE IF ~in.srcOpen THEN [ok |-> FALSE, calls |-> 0,
                              stage |-> "unreadable", file |-> f]
    ELSE IF ~in.compile THEN [ok |-> FALSE, calls |-> 1, stage |-> "errors",
                              file |-> f]
    ELSE IF ~in.write THEN [ok |-> FALSE, calls |-> 1,
                            stage |-> "writeFailed", file |-> f]
    ELSE [ok |-> TRUE, calls |-> 1, stage |-> "written",
          file |-> [f EXCEPT !.spvExists = TRUE, !.spvTime = Now,
                             !.spvBytes = "compiled"]]

\* The tail of LoadShaderModule: read the artifact and create the module.
ReadAndCreate(c, in) ==
    [threw  |-> ~(in.read /\ in.module),
     module |-> IF in.read /\ in.module THEN c.file.spvBytes ELSE "none",
     calls  |-> c.calls,
     stage  |-> c.stage,
     file   |-> c.file]

\* LoadShaderModule.  last_write_time(glslPath) throws when the artifact
\* exists and the source does not; a false CompileGlslToSpv throws.
LoadShaderModule(f, in) ==
    IF f.spvExists /\ ~f.srcExists
      THEN [threw |-> TRUE, module |-> "none", calls |-> 0,
            stage |-> "noSource", file |-> f]
    ELSE IF NeedsCompile(f)
      THEN LET c == CompileGlslToSpv(f, in)
           IN  IF c.ok THEN ReadAndCreate(c, in)
                       ELSE [threw |-> TRUE, module |-> "none",
                             calls |-> c.calls, stage |-> c.stage,
                             file |-> c.file]
    ELSE ReadAndCreate([calls |-> 0, stage |-> "notNeeded", file |-> f], in)

\* One LoadShaderModule call of InitPipelines (triangle.vert, then
\* triangle.frag) on the files it finds.
InitPipelines ==
    /\ pc = "InitPipelines"
    /\ \E f \in FileStates, in \in LoadInputs :
         LET r == LoadShaderModule(f, in)
         IN  /\ lastLoad' = [made |-> TRUE, shader |-> shaderIdx, pre |-> f,
                             post |-> r.file, calls |-> r.calls,
                             stage |-> r.stage, threw |-> r.threw,
                             module |-> r.module]
             /\ shaderIdx' = shaderIdx + 1
             /\ IF r.threw
                  THEN /\ Throw
                       /\ UNCHANGED <<created, IsInitialized, stillRunning>>
                  ELSE /\ created' = Append(created,
                                            ShaderHandles[shaderIdx + 1])
                       /\ pc' = IF shaderIdx = 1 THEN "InitDone"
                                                 ELSE "InitPipelines"
                       /\ UNCHANGED <<exitCode, IsInitialized, stillRunning>>
    /\ UNCHANGED <<destroyed, FrameNumber, swapchainImageIdx, cycle, quitSeen,
                   drawsStarted, drawsCompleted, drawsAfterQuit, gpuVars,
                   sizeVars>>

\* InitPipelines returns (the paths and buffers of its LoadShaderModule
\* calls are gone), Initialize sets IsInitialized and returns, and Exec calls
\* Run, which starts with stillRunning = true.
InitDone ==
    /\ pc = "InitDone"
    /\ IsInitialized' = TRUE
    /\ stillRunning' = TRUE
    /\ lastLoad' = NoLoad
    /\ pc' = "RunLoop"
    /\ UNCHANGED <<exitCode, shaderIdx, created, destroyed, sizeVars, gpuVars,
                   FrameNumber, swapchainImageIdx, cycle, quitSeen,
                   drawsStarted, drawsCompleted, drawsAfterQuit>>

\* ------------------------------------------------------------- Run
initVars == <<IsInitialized, created, destroyed, sizeVars, shaderVars>>

\* while (stillRunning)
RunLoop ==
    /\ pc = "RunLoop"
    /\ pc' = IF stillRunning THEN "PollEvents" ELSE "Cleanup"
    /\ UNCHANGED <<exitCode, initVars, loopVars, gpuVars>>

Events == {"quit", "other"}
EventQueues == UNION {[1..n -> Events] : n \in 0..MaxEvents}

HasQuit(evs) == \E i \in 1..Len(evs) : evs[i] = "quit"

\* The inner SDL_PollEvent loop drains every pending event; the break
\* statements leave the switch only.
DrainEventsKeepsRunning(running, evs) == running

DrainEvents(running, evs) == IF HasQuit(evs) THEN FALSE ELSE running

\* One pass of the inner loop over the pending events, up to the call of
\* Draw.  After MaxFrames frames the user closes the window.
PollEvents ==
    /\ pc = "PollEvents"
    /\ \E evs \in EventQueues :
         /\ FrameNumber >= MaxFrames => HasQuit(evs)
         /\ stillRunning' = DrainEvents(stillRunning, evs)
         /\ quitSeen' = (quitSeen \/ HasQuit(evs))
    /\ pc' = "Draw"
    /\ UNCHANGED <<exitCode, initVars, gpuVars, FrameNumber,
                   swapchainImageIdx, cycle, drawsStarted, drawsCompleted,
                   drawsAfterQuit>>

\* ------------------------------------------------------------- Draw
\* Entry of Draw.  The local swapchainImageIdx is declared without an
\* initializer: it holds an arbitrary value, swapchainSize standing for every
\* value that is not an index of Framebuffers.
DrawBegin ==
    /\ pc = "Draw"
    /\ drawsStarted <= MaxFrames
    /\ cycle' = NoCycle
    /\ swapchainImageIdx' \in 0..swapchainSize
    /\ drawsStarted' = drawsStarted + 1
    /\ drawsAfterQuit' = IF quitSeen THEN drawsAfterQuit + 1
                                     ELSE drawsAfterQuit
    /\ pc' = "WaitFence"
    /\ UNCHANGED <<exitCode, initVars, gpuVars, FrameNumber, stillRunning,
                   quitSeen, drawsCompleted>>

\* vkWaitForFences(Device, 1, &RenderFence, true, 1000000000): returns
\* VK_SUCCESS once the fence is signaled and VK_TIMEOUT after one second
\* otherwise.  The result is discarded.
WaitFence ==
    /\ pc = "WaitFence"
    /\ \/ /\ RenderFence = "signaled"
          /\ cycle' = [cycle EXCEPT !.wait = "ok"]
       \/ /\ RenderFence = "unsignaled"
          /\ cycle' = [cycle EXCEPT !.wait = "fail"]
    /\ pc' = "ResetFence"
    /\ UNCHANGED <<exitCode, initVars, gpuVars, FrameNumber, stillRunning,
                   swapchainImageIdx, quitSeen, drawsStarted, drawsCompleted,
                   drawsAfterQuit>>

\* vkResetFences(Device, 1, &RenderFence)
ResetFence ==
    /\ pc = "ResetFence"
    /\ RenderFence' = "unsignaled"
    /\ pc' = "Acquire"
    /\ UNCHANGED <<exitCode, initVars, pending, semVars, gpuQueue, loopVars>>

\* vkAcquireNextImageKHR(..., PresentSemaphore, nullptr,
\* &swapchainImageIdx): on success only, writes the index and signals
\* PresentSemaphore.  The result is discarded.
Acquire ==
    /\ pc = "Acquire"
    /\ \/ \E k \in 0..(swapchainSize - 1) :
            /\ swapchainImageIdx' = k
            /\ PresentSemaphore' = drawsStarted
            /\ cycle' = [cycle EXCEPT !.acquire = "ok"]
       \/ /\ cycle' = [cycle EXCEPT !.acquire = "fail"]
          /\ UNCHANGED <<swapchainImageIdx, PresentSemaphore>>
    /\ pc' = "Record"
    /\ UNCHANGED <<exitCode, initVars, RenderFence, pending, RenderSemaphore,
                   gpuQueue, FrameNumber, stillRunning, quitSeen,
                   drawsStarted, drawsCompleted, drawsAfterQuit>>

\* vkResetCommandBuffer ... vkEndCommandBuffer, reading
\* Framebuffers[swapchainImageIdx].  An index outside the vector is
\* undefined behaviour: the read faults, or yields some handle and goes on.
Record ==
    /\ pc = "Record"
    /\ \/ /\ swapchainImageIdx < numFramebuffers
          /\ pc' = "Submit"
       \/ /\ swapchainImageIdx >= numFramebuffers
          /\ pc' = "Submit"
       \/ /\ swapchainImageIdx >= numFramebuffers
          /\ pc' = "Crashed"
    /\ UNCHANGED <<exitCode, initVars, gpuVars, loopVars>>

\* An operation of the current Draw on GraphicsQueue.
QueueOp(kind) == [op |-> kind, cycle |-> drawsStarted]

\* vkQueueSubmit(GraphicsQueue, 1, &submit, RenderFence): on success the
\* submission is queued; it waits on PresentSemaphore and signals
\* RenderSemaphore and RenderFence when it finishes.  The result is
\* discarded.
Submit ==
    /\ pc = "Submit"
    /\ \/ /\ pending' = pending + 1
          /\ gpuQueue' = Append(gpuQueue, QueueOp("render"))
          /\ cycle' = [cycle EXCEPT !.submit = "ok"]
       \/ /\ cycle' = [cycle EXCEPT !.submit = "fail"]
          /\ UNCHANGED <<pending, gpuQueue>>
    /\ pc' = "Present"
    /\ UNCHANGED <<exitCode, initVars, RenderFence, semVars, FrameNumber,
                   stillRunning, swapchainImageIdx, quitSeen, drawsStarted,
                   drawsCompleted, drawsAfterQuit>>

FrameNumberKept(n) == n

\* FrameNumber++
IncFrameNumber(n) == n + 1

\* vkQueuePresentKHR (result discarded; on success the present of image
\* swapchainImageIdx is queued, waiting on RenderSemaphore), FrameNumber++,
\* return to Run.
Present ==
    /\ pc = "Present"
    /\ \/ /\ cycle' = [cycle EXCEPT !.present = "ok"]
          /\ gpuQueue' = Append(gpuQueue, QueueOp("present"))
       \/ /\ cycle' = [cycle EXCEPT !.present = "fail"]
          /\ UNCHANGED gpuQueue
    /\ FrameNumber' = IncFrameNumber(FrameNumber)
    /\ drawsCompleted' = drawsCompleted + 1
    /\ pc' = "RunLoop"
    /\ UNCHANGED <<exitCode, initVars, RenderFence, pending, semVars,
                   stillRunning, swapchainImageIdx, quitSeen, drawsStarted,
                   drawsAfterQuit>>

\* The queue runs its operations oldest first.  The GPU finishes the oldest
\* submission once the semaphore it waits on (submit.pWaitSemaphores =
\* &PresentSemaphore) is signaled, and signals RenderSemaphore
\* (submit.pSignalSemaphores) and the fence passed to vkQueueSubmit.
GpuComplete ==
    /\ pc \notin {"Done", "Crashed"}
    /\ pending > 0
    /\ gpuQueue # <<>>
    /\ Head(gpuQueue).op = "render"
    /\ PresentSemaphore # 0
    /\ pending' = pending - 1
    /\ gpuQueue' = Tail(gpuQueue)
    /\ PresentSemaphore' = 0
    /\ RenderSemaphore' = Head(gpuQueue).cycle
    /\ RenderFence' = "signaled"
    /\ UNCHANGED <<pc, exitCode, initVars, loopVars>>

\* The presentation engine runs the oldest present once the semaphore it
\* waits on (presentInfo.pWaitSemaphores = &RenderSemaphore) is signaled.
GpuPresent ==
    /\ pc \notin {"Done", "Crashed"}
    /\ gpuQueue # <<>>
    /\ Head(gpuQueue).op = "present"
    /\ RenderSemaphore # 0
    /\ gpuQueue' = Tail(gpuQueue)
    /\ RenderSemaphore' = 0
    /\ UNCHANGED <<pc, exitCode, initVars, loopVars, RenderFence, pending,
                   PresentSemaphore>>

\* ------------------------------------------------------------- Cleanup
\* for (i < SwapchainImageViews.size()):
\*     vkDestroyFramebuffer(Framebuffers[i]); vkDestroyImageView(views[i])
FramebufferViewPairs(n) ==
    [j \in 1..(2 * n) |-> IF j % 2 = 1 THEN <<"Framebuffer", (j - 1) \div 2>>
                                       ELSE <<"ImageView", (j - 2) \div 2>>]

CleanupOrderSwapchainFirst(n) ==
    <<H("Swapchain"), H("CommandPool"), H("RenderPass")>>
    \o FramebufferViewPairs(n)
    \o <<H("Device"), H("Surface"), H("DebugMessenger"), H("Instance"),
         H("Window")>>

\* The destroy calls of Cleanup, in program order.
CleanupOrder(n) ==
    <<H("CommandPool"), H("Swapchain"), H("RenderPass")>>
    \o FramebufferViewPairs(n)
    \o <<H("Device"), H("Surface"), H("DebugMessenger"), H("Instance"),
         H("Window")>>

\* Cleanup as called by Exec after Run, then return 0.
Cleanup ==
    /\ pc = "Cleanup"
    /\ destroyed' = IF IsInitialized
                      THEN destroyed \o CleanupOrder(numImageViews)
                      ELSE destroyed
    /\ pc' = "Done"
    /\ exitCode' = 0
    /\ UNCHANGED <<IsInitialized, shaderVars, created, sizeVars, loopVars,
                   gpuVars>>

Next ==
    \/ SDLInit
    \/ CreateWindow
    \/ InitVulkan
    \/ InitSwapchain
    \/ InitCommands
    \/ InitDefaultRenderpass
    \/ InitFramebuffers
    \/ InitSyncStructures
    \/ InitPipelines
    \/ InitDone
    \/ RunLoop
    \/ PollEvents
    \/ DrawBegin
    \/ WaitFence
    \/ ResetFence
    \/ Acquire
    \/ Record
    \/ Submit
    \/ Present
    \/ GpuComplete
    \/ GpuPresent
    \/ Cleanup

Spec == Init /\ [][Next]_vars

TypeOK ==
    /\ pc \in {"SDLInit", "CreateWindow", "InitVulkan", "InitSwapchain",
               "InitCommands", "InitDefaultRenderpass", "InitFramebuffers",
               "InitSyncStructures", "InitPipelines", "InitDone", "RunLoop",
               "PollEvents", "Draw", "WaitFence", "ResetFence", "Acquire",
               "Record", "Submit", "Present", "Cleanup", "Done", "Crashed"}
    /\ exitCode \in {-1, 0, 1}
    /\ IsInitialized \in BOOLEAN
    /\ FrameNumber \in 0..(MaxFrames + 1)
    /\ stillRunning \in BOOLEAN
    /\ swapchainSize \in 0..MaxImages
    /\ numImageViews \in 0..MaxImages
    /\ numFramebuffers \in 0..MaxImages
    /\ swapchainImageIdx \in 0..MaxImages
    /\ RenderFence \in {"none", "signaled", "unsignaled"}
    /\ pending \in 0..(MaxFrames + 1)
    /\ pending = Cardinality({i \in 1..Len(gpuQueue) :
                                gpuQueue[i].op = "render"})
    /\ PresentSemaphore \in 0..(MaxFrames + 1)
    /\ RenderSemaphore \in 0..(MaxFrames + 1)
    /\ shaderIdx \in 0..2
    /\ quitSeen \in BOOLEAN

\* ------------------------------------------------------------- properties
DrawBody == {"ResetFence", "Acquire", "Record", "Submit", "Present"}

CleanExit == pc = "Done" /\ exitCode = 0

Range(seq) == {seq[i] : i \in 1..Len(seq)}
Count(seq, r) == Cardinality({i \in 1..Len(seq) : seq[i] = r})
Pos(seq, r) == CHOOSE i \in 1..Len(seq) : seq[i] = r

\* C1: no Draw cycle starts RECORD while an earlier submission is still
\* executing (its fence not signaled), and at most one frame is in flight,
\* on every path through WAIT_FENCE including the timed-out wait.
C1_RecordOnlyAfterFenceSignaled ==
    /\ pc = "Record" => pending = 0
    /\ pending <= 1

\* C2: a timed-out wait on RenderFence is fatal: the Draw whose wait timed
\* out does not go on to reset the fence, acquire, record, submit or
\* present.
C2_FenceTimeoutIsFatal ==
    cycle.wait = "fail" => pc \notin DrawBody

\* C3: a failed acquire is fatal: the cycle never reaches RECORD, SUBMIT or
\* PRESENT with that result.
C3_AcquireFailureIsFatal ==
    cycle.acquire = "fail" => pc \notin {"Record", "Submit", "Present"}

\* C4: FrameNumber changes only at the end of a Draw cycle whose fence wait,
\* acquire, submit and present all succeeded.
C4_FrameNumberOnlyAfterSuccess ==
    [][FrameNumber' # FrameNumber =>
         /\ cycle'.wait = "ok"
         /\ cycle'.acquire = "ok"
         /\ cycle'.submit = "ok"
         /\ cycle'.present = "ok"]_vars

\* C5: FrameNumber equals the number of completed Draw calls: it starts at
\* 0 and every return from Draw adds exactly one.
C5_FrameNumberCountsDraws ==
    /\ FrameNumber = drawsCompleted
    /\ pc \in DrawBody \cup {"WaitFence"} => drawsStarted = FrameNumber + 1

C5_Witness ==
    /\ pc = "RunLoop"
    /\ FrameNumber = MaxFrames
    /\ cycle = [wait |-> "ok", acquire |-> "ok", submit |-> "ok",
                present |-> "ok"]

\* C6 as stated: once an event poll has returned a quit event, no Draw cycle
\* is started afterwards.
C6_NoDrawAfterQuit ==
    drawsAfterQuit = 0

\* C6 as amended: the stop flag is tested at the top of the loop only, so the
\* Draw of the iteration whose poll returned quit still runs; it is the only
\* Draw started after the quit, and no event poll follows it.
C6_OneDrawAfterQuit ==
    /\ drawsAfterQuit <= 1
    /\ quitSeen => /\ ~stillRunning
                   /\ pc # "PollEvents"
                   /\ pc # "Draw" => drawsAfterQuit = 1

C6_Witness ==
    /\ quitSeen
    /\ pc = "Cleanup"
    /\ drawsAfterQuit = 1
    /\ drawsStarted > 1

\* C7: after a successful initialization, a run in which a poll returned
\* quit ends in one way only: Exec has returned 0 with the teardown done.
C7_QuitEndsInCleanExit ==
    (IsInitialized /\ quitSeen /\ pc \in {"Done", "Crashed"}) =>
        (CleanExit /\ destroyed # <<>>)

\* C8: after initialization followed by teardown, every handle that
\* initialization created has been destroyed exactly once, and nothing else
\* has been destroyed.
C8_TeardownMirrorsInit ==
    CleanExit =>
        /\ \A r \in Range(created) : Count(destroyed, r) = 1
        /\ Range(destroyed) \subseteq Range(created)

\* C9: of any two handles that Cleanup destroys, the one created later is
\* destroyed first.
C9_ReverseCreationOrder ==
    CleanExit =>
        \A i, j \in 1..Len(created) :
            (/\ i < j
             /\ created[i] \in Range(destroyed)
             /\ created[j] \in Range(destroyed))
            => Pos(destroyed, created[j]) < Pos(destroyed, created[i])

C11_InitFailureExitsWithOne ==
    (~IsInitialized /\ pc \in {"Done", "Crashed"}) =>
        /\ pc = "Done"
        /\ exitCode = 1
        /\ drawsStarted = 0
        /\ destroyed = <<>>

\* The states from the return of InitFramebuffers to the start of Cleanup.
PresentationBuilt ==
    pc \in {"InitSyncStructures", "InitPipelines", "InitDone", "RunLoop",
            "PollEvents", "Draw", "WaitFence", "ResetFence", "Acquire",
            "Record", "Submit", "Present", "Cleanup"}

Handles(kind) == {h \in Range(created) : h[1] = kind}

\* C12: from the end of presentation setup until teardown the swapchain
\* images, the image views and the framebuffers are equal in number (the
\* sizes of the three vectors and the handles created for them), and no
\* step taken after presentation setup changes any of the three sizes.
C12_SwapchainSizesEqual ==
    /\ [](PresentationBuilt =>
            /\ swapchainSize > 0
            /\ numImageViews = swapchainSize
            /\ numFramebuffers = swapchainSize
            /\ Cardinality(Handles("ImageView")) = swapchainSize
            /\ Cardinality(Handles("Framebuffer")) = swapchainSize)
    /\ [][PresentationBuilt => UNCHANGED sizeVars]_vars

\* A Draw of a run with more than one swapchain image has reached PRESENT.
C12_Witness ==
    /\ pc = "Present"
    /\ swapchainSize = MaxImages
    /\ numFramebuffers = MaxImages
    /\ drawsStarted >= 2

\* InitFramebuffers sized Framebuffers and one of its vkCreateFramebuffer
\* calls failed.
FramebufferBuildFailed ==
    /\ numFramebuffers > 0
    /\ Cardinality(Handles("Framebuffer")) < numFramebuffers

\* C15: when the creation of framebuffer i fails, initialization is aborted
\* and every framebuffer created before it in the same build has been
\* destroyed.
C15_FailedBuildReleasesFramebuffers ==
    FramebufferBuildFailed =>
        /\ pc = "Done"
        /\ exitCode = 1
        /\ Handles("Framebuffer") \subseteq Range(destroyed)

\* The cache test of the latest load, stated on the files it found: no
\* artifact, or a source strictly newer than the artifact.
ArtifactStale ==
    \/ ~lastLoad.pre.spvExists
    \/ lastLoad.pre.srcTime > lastLoad.pre.spvTime

\* C13: a load that finds a readable source and no artifact, or an artifact
\* strictly older than the source, invokes the compiler exactly once and,
\* when the compilation succeeds, overwrites the artifact and creates the
\* module from the new bytes; a load that finds an artifact at least as new
\* as the source invokes the compiler zero times, leaves the artifact as it
\* was and creates the module from the artifact's bytes.
C13_ShaderCacheDecision ==
    (lastLoad.made /\ lastLoad.pre.srcExists
                   /\ lastLoad.stage # "unreadable") =>
        IF ArtifactStale
          THEN /\ lastLoad.calls = 1
               /\ lastLoad.stage = "written" =>
                    /\ lastLoad.post.spvExists
                    /\ lastLoad.post.spvBytes = "compiled"
                    /\ lastLoad.post.spvTime > lastLoad.pre.spvTime
                    /\ lastLoad.post.spvTime > lastLoad.pre.srcTime
               /\ ~lastLoad.threw => /\ lastLoad.stage = "written"
                                     /\ lastLoad.module = "compiled"
          ELSE /\ lastLoad.calls = 0
               /\ lastLoad.post = lastLoad.pre
               /\ ~lastLoad.threw => lastLoad.module = lastLoad.pre.spvBytes

\* A load found an artifact older than its source and recompiled it.
C13_Witness ==
    /\ lastLoad.made
    /\ lastLoad.pre.spvExists
    /\ lastLoad.pre.srcTime > lastLoad.pre.spvTime
    /\ lastLoad.calls = 1
    /\ ~lastLoad.threw
    /\ lastLoad.post.spvBytes = "compiled"

\* C14: a load whose source file is missing fails with zero compiler
\* invocations, with or without a cached artifact; a load whose compilation
\* reports errors leaves the artifact as it was; either way the load throws,
\* creates no shader module, and Exec returns 1 with IsInitialized false.
C14_ShaderFailures ==
    lastLoad.made =>
        /\ (~lastLoad.pre.srcExists \/ lastLoad.stage = "errors") =>
             /\ lastLoad.threw
             /\ lastLoad.post = lastLoad.pre
             /\ lastLoad.module = "none"
        /\ ~lastLoad.pre.srcExists => lastLoad.calls = 0
        /\ lastLoad.threw =>
             /\ pc = "Done"
             /\ exitCode = 1
             /\ ~IsInitialized
             /\ Cardinality(Handles("ShaderModule")) = lastLoad.shader
        /\ ~lastLoad.threw =>
             /\ lastLoad.module = lastLoad.post.spvBytes
             /\ lastLoad.post.spvTime >= lastLoad.pre.srcTime

\* A load found a cached artifact and no source, and failed.
C14_Witness ==
    /\ lastLoad.made
    /\ ~lastLoad.pre.srcExists
    /\ lastLoad.pre.spvExists
    /\ lastLoad.threw
    /\ pc = "Done"

\* The phase that follows each phase of a Draw cycle; FrameNumber++ and the
\* return to Run follow PRESENT.
NextPhase ==
    [p \in {"WaitFence", "ResetFence", "Acquire", "Record", "Submit",
            "Present"} |->
        CASE p = "WaitFence"  -> "ResetFence"
          [] p = "ResetFence" -> "Acquire"
          [] p = "Acquire"    -> "Record"
          [] p = "Record"     -> "Submit"
          [] p = "Submit"     -> "Present"
          [] p = "Present"    -> "RunLoop"]

\* The queue runs its oldest operation in this step.
QueueRuns(kind) ==
    /\ gpuQueue # <<>>
    /\ Head(gpuQueue).op = kind
    /\ gpuQueue' = Tail(gpuQueue)

\* C16: a Draw cycle leaves each phase only for the next one of WAIT_FENCE,
\* ACQUIRE, RECORD, SUBMIT, PRESENT; a submission runs on the signal of the
\* acquire of its own cycle, and a present runs on the signal of the
\* submission of its own cycle.
C16_PhasesAndHandoffChained ==
    [][/\ (pc \in DOMAIN NextPhase /\ pc' # pc) => pc' = NextPhase[pc]
       /\ QueueRuns("render") => PresentSemaphore = Head(gpuQueue).cycle
       /\ QueueRuns("present") => RenderSemaphore = Head(gpuQueue).cycle]_vars

\* C17: from RECORD to PRESENT the index used for Framebuffers and for the
\* present is the one the acquire of this cycle returned, and it is a valid
\* index into Framebuffers.
C17_IndexFromAcquire ==
    pc \in {"Record", "Submit", "Present"} =>
        /\ cycle.acquire = "ok"
        /\ swapchainImageIdx < numFramebuffers

\* The kinds of handle created from the device.
DeviceOwned ==
    {"Swapchain", "ImageView", "CommandPool", "RenderPass", "Framebuffer",
     "RenderFence", "PresentSemaphore", "RenderSemaphore", "ShaderModule"}

DestroyedBefore(a, b) ==
    /\ a \in Range(destroyed)
    /\ Pos(destroyed, a) < Pos(destroyed, b)

\* C18: once Cleanup has destroyed the device, every handle created from
\* the device was destroyed before it; once it has destroyed the instance,
\* the device, the surface and the debug messenger were destroyed before it.
C18_OwnershipRespected ==
    /\ H("Device") \in Range(destroyed) =>
         \A h \in Range(created) :
             h[1] \in DeviceOwned => DestroyedBefore(h, H("Device"))
    /\ H("Instance") \in Range(destroyed) =>
         \A h \in {H("Device"), H("Surface"), H("DebugMessenger")} :
             DestroyedBefore(h, H("Instance"))

\* C19: when Cleanup starts, no submission and no present is still queued
\* on the GPU and RenderFence has signaled.
C19_NoTeardownWhileInFlight ==
    pc = "Cleanup" =>
        /\ pending = 0
        /\ gpuQueue = <<>>
        /\ RenderFence = "signaled"

\* C20: the first Draw finds RenderFence signaled at WAIT_FENCE, and no Draw
\* cycle that was started is cut short before PRESENT: when the process has
\* ended, every started cycle has completed.
C20_EveryDrawReachesPresent ==
    /\ (pc = "WaitFence" /\ drawsStarted = 1) => RenderFence = "signaled"
    /\ pc \in {"Done", "Crashed"} => drawsCompleted = drawsStarted

====
